---- MODULE Spec2Model ----
(***************************************************************************)
(* Model of the MsgAssembler cell (src/src/io/ros/MsgAssembler.cpp).       *)
(*                                                                         *)
(* The cell keeps one piece of state across calls, the static map          *)
(* object_id_to_index_.  process() is a single synchronous call: it is     *)
(* modelled as one action whose three loops are recursive operators.       *)
(*                                                                         *)
(* Numbers the code holds in float/double are modelled as exact rationals  *)
(* <<numerator, denominator>>, in lowest terms when stored.  For table     *)
(* sizes far below 2^20 the float rounding of (360.0 / size) * index never *)
(* moves a hue across a multiple of 60 nor merges two different hues, so   *)
(* the sector chosen by hsv2rgb and the equality of hues are those of the  *)
(* rationals.                                                              *)
(*                                                                         *)
(* Not modelled: header.stamp (wall clock), the ecto registration.         *)
(***************************************************************************)
EXTENDS Integers, Sequences, FiniteSets, TLC

\* ---------------------------------------------------------------- bounds
MaxLen == 2   \* longest pose_results_ vector fed to one call
NumIds == 3   \* number of distinct object identifiers that exist

\* ------------------------------------------------------------- rationals
RECURSIVE GCD(_, _)
GCD(a, b) == IF b = 0 THEN a ELSE GCD(b, a % b)

Abs(n) == IF n < 0 THEN -n ELSE n

\* A value in lowest terms with a positive denominator: the form in which a
\* float is stored, so that equal values are equal tuples.
Rat(n, d) ==
  LET g == GCD(Abs(n), Abs(d))
      s == IF d < 0 THEN -1 ELSE 1
  IN  <<(s * n) \div g, (s * d) \div g>>

Norm(a) == Rat(a[1], a[2])

\* Arithmetic on intermediate values; operands and results have positive
\* denominators and need not be in lowest terms.
RatAdd(a, b) == <<a[1] * b[2] + b[1] * a[2], a[2] * b[2]>>
RatSub(a, b) == <<a[1] * b[2] - b[1] * a[2], a[2] * b[2]>>
RatMul(a, b) == <<a[1] * b[1], a[2] * b[2]>>
RatDiv(a, b) ==
  IF b[1] < 0 THEN <<-(a[1] * b[2]), -(a[2] * b[1])>> ELSE <<a[1] * b[2], a[2] * b[1]>>
RatLess(a, b) == a[1] * b[2] < b[1] * a[2]
fabs(a) == <<Abs(a[1]), a[2]>>
\* fmodf(a, b): remainder of a / b with the sign of a (truncated quotient)
fmodf(a, b) ==
  LET num == a[1] * b[2]
      den == b[1] * a[2]
      q   == IF num >= 0 THEN num \div den ELSE -((-num) \div den)
  IN  RatSub(a, RatMul(<<q, 1>>, b))

\* ------------------------------------------------------------- hsv2rgb
hsv2rgb(h, s, v) ==
  LET c      == RatMul(v, s)
      hprime == RatDiv(h, <<60, 1>>)
      x      == RatMul(c, RatSub(<<1, 1>>,
                                 fabs(RatSub(fmodf(hprime, <<2, 1>>), <<1, 1>>))))
      zero   == <<0, 1>>
      rgb0   == IF RatLess(hprime, <<1, 1>>) THEN [r |-> c, g |-> x, b |-> zero]
                ELSE IF RatLess(hprime, <<2, 1>>) THEN [r |-> x, g |-> c, b |-> zero]
                ELSE IF RatLess(hprime, <<3, 1>>) THEN [r |-> zero, g |-> c, b |-> x]
                ELSE IF RatLess(hprime, <<4, 1>>) THEN [r |-> zero, g |-> x, b |-> c]
                ELSE IF RatLess(hprime, <<5, 1>>) THEN [r |-> x, g |-> zero, b |-> c]
                ELSE IF RatLess(hprime, <<6, 1>>) THEN [r |-> c, g |-> zero, b |-> x]
                ELSE [r |-> zero, g |-> zero, b |-> zero]
      m      == RatSub(v, c)
  IN  [r |-> Norm(RatAdd(rgb0.r, m)),
       g |-> Norm(RatAdd(rgb0.g, m)),
       b |-> Norm(RatAdd(rgb0.b, m))]

\* ----------------------------------------------------------- input data
IdNames == <<"id_a", "id_b", "id_c", "id_d", "id_e", "id_f">>
ObjectIds == {IdNames[i] : i \in 1..NumIds}

\* Rotations the detections come with (row-major): identity, half turn
\* about Z.
Identity3 == <<1, 0, 0, 0, 1, 0, 0, 0, 1>>
HalfTurnZ == <<-1, 0, 0, 0, -1, 0, 0, 0, 1>>

\* The attributes a pose result carries are those of its object.
MeshUris == <<"mesh_a", "mesh_b", "mesh_c", "mesh_d", "mesh_e", "mesh_f">>
Names == <<"name_a", "name_b", "name_c", "name_d", "name_e", "name_f">>

get_attribute(pose_result, key) ==
  LET i == CHOOSE j \in 1..Len(IdNames) : IdNames[j] = pose_result.object_id
  IN  IF key = "mesh_uri" THEN MeshUris[i] ELSE Names[i]

RECURSIVE SeqsUpTo(_, _)
SeqsUpTo(S, n) ==
  IF n = 0 THEN {<<>>}
  ELSE LET shorter == SeqsUpTo(S, n - 1)
       IN  shorter \cup {Append(q, e) : q \in {p \in shorter : Len(p) = n - 1}, e \in S}

\* The vectors fed to process(): every sequence of at most MaxLen object
\* identifiers, repetitions included.  The k-th detection of a vector sits at
\* (k, 2k, 3k), turned half about Z when k is even, so that the items of one
\* vector are told apart by their pose also when their identifiers agree.
PoseResultAt(k, o) ==
  [object_id |-> o, T |-> <<k, 2 * k, 3 * k>>,
   R |-> IF k % 2 = 1 THEN Identity3 ELSE HalfTurnZ]

Inputs ==
  {[k \in 1..Len(ids) |-> PoseResultAt(k, ids[k])] : ids \in SeqsUpTo(ObjectIds, MaxLen)}

\* image_message_ is a possibly-null pointer, <<>> or <<message>>; the cell
\* runs with its image input connected to a camera.
ImageMessages == {<<[header |-> [frame_id |-> "camera"]]>>}

\* ---------------------------------------------------------------- state
VARIABLES
  assign_order,         \* how the build orders the operands of line 170
  object_id_to_index_,  \* static std::map<ObjectId, unsigned int>
  pose_results_,        \* input spore
  image_message_,       \* input spore
  outputs,              \* the three output tendrils, each <<>> or <<msg>>
  hue,                  \* the local `hue` of each iteration of the last call
  index_at_entry,       \* object_id_to_index_ when the last call began
  hue_at_size           \* per identifier: <<>> or <<hue>>, its hue in the calls
                        \* made since the table last grew (that call included)

vars == <<assign_order, object_id_to_index_, pose_results_, image_message_,
          outputs, hue, index_at_entry, hue_at_size>>

EmptyMap == [id \in {} |-> 0]
size(map) == Cardinality(DOMAIN map)

\* ------------------------------------------------- loop 1 (lines 168-170)
\* object_id_to_index_[id] = object_id_to_index_.size();
\* Before C++17 the two operands of the assignment are unsequenced: the
\* build either reads size() first (the value before the insertion) or runs
\* operator[] first, which inserts the key, and then reads size() (the value
\* after the insertion).  A build makes one of the two choices.
AssignOrders == {"size_first", "subscript_first"}

assigned_index(order, map) ==
  IF order = "size_first" THEN size(map) ELSE size(map) + 1

\* Variant: the find() guard of line 169 dropped.
insert_always(order, map, id) ==
  [k \in DOMAIN map \cup {id} |->
     IF k = id THEN assigned_index(order, map) ELSE map[k]]

insert_if_absent(order, map, id) ==
  IF id \in DOMAIN map
    THEN map
    ELSE [k \in DOMAIN map \cup {id} |->
            IF k = id THEN assigned_index(order, map) ELSE map[k]]

RECURSIVE fill_index(_, _, _)
fill_index(order, map, results) ==
  IF results = <<>>
    THEN map
    ELSE fill_index(order, insert_if_absent(order, map, Head(results).object_id),
                    Tail(results))

\* Variant: the insertion done inside loop 2, item by item.
index_in_loop2_lazy(filled, order, map, results, k) ==
  fill_index(order, map, SubSeq(results, 1, k))

\* The map as iteration k of loop 2 finds it: loop 1 has run to its end, so
\* it is the map loop 1 left (filled), whatever k.
index_in_loop2(filled, order, map, results, k) == filled

\* ------------------------------------------------- loop 2 (lines 173-233)
\* Eigen::Quaternion<float>(rotation_matrix) as (x, y, z, w), for the
\* two rotations above.
Quaternion(R) ==
  IF R = Identity3 THEN <<0, 0, 0, 1>> ELSE <<0, 0, 1, 0>>

default_pose == [position |-> <<0, 0, 0>>, orientation |-> <<0, 0, 0, 0>>]

\* Variant: the vector never left empty.
poses_resize_nonempty(n) == IF n = 0 THEN 1 ELSE n

\* poses.resize(pose_results_->size())
poses_resize(n) == n

\* Variant: T(0) written to both x and y.
msg_pose_xx(pose_result) ==
  [position |-> <<pose_result.T[1], pose_result.T[1], pose_result.T[3]>>,
   orientation |-> Quaternion(pose_result.R)]

msg_pose(pose_result) ==
  [position |-> <<pose_result.T[1], pose_result.T[2], pose_result.T[3]>>,
   orientation |-> Quaternion(pose_result.R)]

\* float hue = (360.0 / size()) * object_id_to_index_[object_id]
hue_of(map, id) == Norm(RatMul(RatDiv(<<360, 1>>, <<size(map), 1>>), <<map[id], 1>>))

\* hsv2rgb(hue, 0.7, 1, r, g, b), tabulated once for the hues a table of at
\* most NumIds identifiers can give: (360 / n) * i with 1 <= n and i <= NumIds.
Hues == {Rat(360 * i, n) : n \in 1..NumIds, i \in 0..NumIds}
marker_rgb == [h \in Hues |-> hsv2rgb(h, <<7, 10>>, <<1, 1>>)]

\* The two states of the local `marker` at its two push_back calls; the
\* second is the first one modified in place, so it keeps header, pose,
\* action, id and mesh_resource.
marker_states(pose_result, header, marker_id, h) ==
  LET rgb  == marker_rgb[h]
      mesh == [pose |-> msg_pose(pose_result),
               type |-> "MESH_RESOURCE",
               action |-> "ADD",
               lifetime |-> 30,
               header |-> header,
               scale |-> [x |-> <<1, 1>>, y |-> <<1, 1>>, z |-> <<1, 1>>],
               color |-> [r |-> rgb.r, g |-> rgb.g, b |-> rgb.b, a |-> <<3, 4>>],
               id |-> marker_id,
               mesh_resource |-> get_attribute(pose_result, "mesh_uri"),
               text |-> ""]
      text == [mesh EXCEPT !.type = "TEXT_VIEW_FACING",
                           !.text = get_attribute(pose_result, "name"),
                           !.color = [r |-> <<1, 1>>, g |-> <<1, 1>>,
                                      b |-> <<1, 1>>, a |-> <<1, 1>>],
                           !.scale.z = <<3, 100>>,
                           !.lifetime = 10]
  IN  <<mesh, text>>

\* Variant: the first push_back (line 220) missing.
markers_of_text_only(pose_result, header, marker_id, h) ==
  <<marker_states(pose_result, header, marker_id, h)[2]>>

\* What one iteration appends to marker_array.markers (lines 220, 230).
markers_of(pose_result, header, marker_id, h) ==
  LET m == marker_states(pose_result, header, marker_id, h)
  IN  <<m[1], m[2]>>

RECURSIVE marker_array(_, _, _, _)
marker_array(results, header, hues, k) ==
  IF k > Len(results)
    THEN <<>>
    ELSE markers_of(results[k], header, k - 1, hues[k])
           \o marker_array(results, header, hues, k + 1)

\* ------------------------------------------------- loop 3 (lines 236-249)
\* Variant: an identifier listed once however often it is detected.
RECURSIVE object_ids_array_unique(_)
object_ids_array_unique(results) ==
  IF results = <<>>
    THEN <<>>
    ELSE LET rest == object_ids_array_unique(Tail(results))
         IN  <<Head(results).object_id>>
               \o SelectSeq(rest, LAMBDA o : o # Head(results).object_id)

RECURSIVE object_ids_array(_)
object_ids_array(results) ==
  IF results = <<>>
    THEN <<>>
    ELSE <<Head(results).object_id>> \o object_ids_array(Tail(results))

\* or_json::write of {"object_ids": [ ... ]} as the sequence of its tokens.
Punct(t) == [kind |-> "punct", text |-> t]
Str(t) == [kind |-> "string", text |-> t]

RECURSIVE json_elements(_)
json_elements(ids) ==
  IF ids = <<>> THEN <<>>
  ELSE IF Len(ids) = 1 THEN <<Str(ids[1])>>
  ELSE <<Str(ids[1]), Punct(",")>> \o json_elements(Tail(ids))

or_json_write(tree) ==
  <<Punct("{"), Str("object_ids"), Punct(":"), Punct("[")>>
    \o json_elements(tree.object_ids)
    \o <<Punct("]"), Punct("}")>>

\* --------------------------------------------------------------- process
process(results) ==
  LET map    == fill_index(assign_order, object_id_to_index_, results)
      header == [frame_id |-> IF image_message_ # <<>>
                                 THEN image_message_[1].header.frame_id ELSE ""]
      n      == Len(results)
      hues   == [k \in 1..n |->
                   hue_of(index_in_loop2(map, assign_order, object_id_to_index_,
                                         results, k),
                          results[k].object_id)]
      poses  == [k \in 1..poses_resize(n) |->
                   IF k <= n THEN msg_pose(results[k]) ELSE default_pose]
      pose_array_msg == [header |-> header, poses |-> poses]
      object_ids_msg ==
        [data |-> or_json_write([object_ids |-> object_ids_array(results)])]
      ids    == {results[k].object_id : k \in 1..n}
  IN  /\ pose_results_' = results
      /\ object_id_to_index_' = map
      /\ outputs' = [pose_message |-> <<pose_array_msg>>,
                     object_ids_message |-> <<object_ids_msg>>,
                     marker_message |->
                       <<[markers |-> marker_array(results, header, hues, 1)]>>]
      /\ hue' = hues
      /\ index_at_entry' = object_id_to_index_
      /\ hue_at_size' =
           [id \in ObjectIds |->
              IF id \in ids
                THEN <<hues[CHOOSE j \in 1..n : results[j].object_id = id]>>
                ELSE IF size(map) = size(object_id_to_index_)
                       THEN hue_at_size[id]
                       ELSE <<>>]
      /\ UNCHANGED <<assign_order, image_message_>>

Init ==
  /\ assign_order \in AssignOrders
  /\ object_id_to_index_ = EmptyMap
  /\ pose_results_ = <<>>
  /\ image_message_ \in ImageMessages
  /\ outputs = [pose_message |-> <<>>, object_ids_message |-> <<>>,
                marker_message |-> <<>>]
  /\ hue = <<>>
  /\ index_at_entry = EmptyMap
  /\ hue_at_size = [id \in ObjectIds |-> <<>>]

Next == \E results \in Inputs : process(results)

Spec == Init /\ [][Next]_vars

\* ============================================================ properties
emitted ==
  /\ outputs.pose_message # <<>>
  /\ outputs.object_ids_message # <<>>
  /\ outputs.marker_message # <<>>

out_poses == outputs.pose_message[1].poses
out_markers == outputs.marker_message[1].markers
out_tokens == outputs.object_ids_message[1].data

IdAt(k) == pose_results_[k].object_id

\* The list under "object_ids", read back from the token sequence; <<"?">>
\* when the text is not an object with that one key and a list of strings.
ParsedObjectIds(tokens) ==
  LET n     == Len(tokens)
      inner == SubSeq(tokens, 5, n - 2)
      wellFormed ==
        /\ n >= 6
        /\ SubSeq(tokens, 1, 4) = <<Punct("{"), Str("object_ids"), Punct(":"), Punct("[")>>
        /\ SubSeq(tokens, n - 1, n) = <<Punct("]"), Punct("}")>>
        /\ \/ Len(inner) = 0
           \/ /\ Len(inner) % 2 = 1
              /\ \A j \in 1..Len(inner) :
                   IF j % 2 = 1 THEN inner[j].kind = "string"
                                ELSE inner[j] = Punct(",")
  IN  IF wellFormed
        THEN [k \in 1..((Len(inner) + 1) \div 2) |-> inner[2 * k - 1].text]
        ELSE <<"?">>

\* C1: a table with n entries holds exactly the indices 0..n-1, each once
\* (every identifier got the table's size before its insertion as index).
C1_IndicesAreZeroToNMinusOne ==
  /\ {object_id_to_index_[id] : id \in DOMAIN object_id_to_index_}
       = 0..(size(object_id_to_index_) - 1)
  /\ \A a, b \in DOMAIN object_id_to_index_ :
       object_id_to_index_[a] = object_id_to_index_[b] => a = b

\* C2: no call changes or removes an entry of the table, and an identifier
\* seen for the first time gets the next unused index: the table's size
\* before its insertion.
C2_EntriesKeptNewGetNextIndex ==
  [][ /\ \A id \in DOMAIN object_id_to_index_ :
           /\ id \in DOMAIN object_id_to_index_'
           /\ object_id_to_index_'[id] = object_id_to_index_[id]
      /\ \A k \in 1..Len(pose_results_') :
           LET id == pose_results_'[k].object_id
               newBefore == {pose_results_'[j].object_id : j \in 1..(k - 1)}
                              \ DOMAIN object_id_to_index_
           IN  id \notin DOMAIN object_id_to_index_
                 => object_id_to_index_'[id]
                      = size(object_id_to_index_) + Cardinality(newBefore \ {id})
    ]_vars

\* C3: the marker ids of one call's marker array start at 0 and increase
\* strictly along the array, so each is unique within the array.
C3_MarkerIdsStrictlyIncreasing ==
  emitted =>
    /\ Len(out_markers) > 0 => out_markers[1].id = 0
    /\ \A j \in 1..(Len(out_markers) - 1) : out_markers[j].id < out_markers[j + 1].id
    /\ \A i, j \in 1..Len(out_markers) :
         out_markers[i].id = out_markers[j].id => i = j

\* C4: for n pose results the marker array has 2n entries; entry 2k-1
\* (1-based) is the mesh marker and entry 2k the text marker of item k, both
\* with the pose of pose-array entry k.
C4_TwoMarkersPerItem ==
  emitted =>
    /\ Len(out_markers) = 2 * Len(pose_results_)
    /\ \A k \in 1..Len(pose_results_) :
         LET mesh == out_markers[2 * k - 1]
             text == out_markers[2 * k]
         IN  /\ mesh.type = "MESH_RESOURCE"
             /\ text.type = "TEXT_VIEW_FACING"
             /\ mesh.mesh_resource = get_attribute(pose_results_[k], "mesh_uri")
             /\ text.text = get_attribute(pose_results_[k], "name")
             /\ mesh.pose = out_poses[k]
             /\ text.pose = out_poses[k]
             /\ mesh.pose.position = pose_results_[k].T

C4_Witness ==
  /\ emitted
  /\ Len(pose_results_) >= 2
  /\ Len(out_markers) >= 4
  /\ IdAt(1) = IdAt(2)

\* C5: for a non-empty input the pose array has as many entries as the
\* input, and entry k has the translation of item k as position.
C5_PoseArrayFollowsInput ==
  (emitted /\ pose_results_ # <<>>) =>
    /\ Len(out_poses) = Len(pose_results_)
    /\ \A k \in 1..Len(pose_results_) :
         out_poses[k].position = pose_results_[k].T

C5_Witness ==
  /\ emitted
  /\ Len(pose_results_) >= 2
  /\ IdAt(1) = IdAt(2)
  /\ out_poses[1].position # out_poses[2].position
  /\ \E id \in DOMAIN index_at_entry : id # IdAt(1)

\* C6: the list under "object_ids" in the object-id text is the sequence of
\* the input's identifiers: same length, same order, duplicates kept.
C6_ObjectIdsAreInputIds ==
  emitted =>
    ParsedObjectIds(out_tokens) = [k \in 1..Len(pose_results_) |-> IdAt(k)]

C6_Witness ==
  /\ emitted
  /\ Len(pose_results_) >= 2
  /\ IdAt(1) = IdAt(2)
  /\ Len(ParsedObjectIds(out_tokens)) = Len(pose_results_)
  /\ \E id \in DOMAIN object_id_to_index_ : id # IdAt(1)

\* C7: a call on an empty input emits an empty pose array, an empty marker
\* array and an empty "object_ids" list, and leaves the table as it was.
C7_EmptyInputEmptyOutputs ==
  (emitted /\ pose_results_ = <<>>) =>
    /\ out_poses = <<>>
    /\ out_markers = <<>>
    /\ ParsedObjectIds(out_tokens) = <<>>
    /\ object_id_to_index_ = index_at_entry

C7_Witness ==
  /\ emitted
  /\ pose_results_ = <<>>
  /\ out_tokens = <<Punct("{"), Str("object_ids"), Punct(":"), Punct("["),
                    Punct("]"), Punct("}")>>
  /\ size(object_id_to_index_) >= 2

\* C8 (as stated): an identifier gets the same hue in every call in which
\* it appears: the hue of a call is the hue the identifier had in the calls
\* before it, also when the table has grown in this call.
C8_HueStableAcrossCalls ==
  [][ \A k \in 1..Len(pose_results_') :
        LET id == pose_results_'[k].object_id
        IN  hue_at_size[id] # <<>> => hue'[k] = hue_at_size[id][1]
    ]_vars

\* C8 (amended): an identifier keeps its index across calls, and gets the
\* same hue in all calls after whose insertions the table has the same
\* number of entries.
C8_HueStableWhileTableSizeStable ==
  [][ /\ \A id \in DOMAIN object_id_to_index_ :
           /\ id \in DOMAIN object_id_to_index_'
           /\ object_id_to_index_'[id] = object_id_to_index_[id]
      /\ \A k \in 1..Len(pose_results_') :
           LET id == pose_results_'[k].object_id
           IN  (/\ hue_at_size[id] # <<>>
                /\ size(object_id_to_index_') = size(object_id_to_index_))
                  => hue'[k] = hue_at_size[id][1]
    ]_vars

\* An identifier with a hue other than 0 that was in the table before the
\* last call, which inserted nothing, and that has been in a call since the
\* table last grew.
C8_Witness ==
  \E k \in 1..Len(pose_results_) :
    /\ emitted
    /\ index_at_entry = object_id_to_index_
    /\ IdAt(k) \in DOMAIN index_at_entry
    /\ \A id \in DOMAIN object_id_to_index_ :
         object_id_to_index_[id] <= object_id_to_index_[IdAt(k)]
    /\ size(object_id_to_index_) >= 2
    /\ hue_at_size[IdAt(k)] = <<hue[k]>>
    /\ hue[k] # <<0, 1>>

\* C9: every hue of one call is (360 / N) * index, N being the size of the
\* table once all identifiers of the call's input are in it.
C9_HueUsesFinalTableSize ==
  emitted =>
    \A k \in 1..Len(pose_results_) :
      /\ IdAt(k) \in DOMAIN object_id_to_index_
      /\ hue[k] = Rat(360 * object_id_to_index_[IdAt(k)], size(object_id_to_index_))

C9_Witness ==
  /\ emitted
  /\ Len(pose_results_) >= 2
  /\ IdAt(1) \in DOMAIN index_at_entry
  /\ IdAt(2) \notin DOMAIN index_at_entry
  /\ index_at_entry # EmptyMap
  /\ hue[1] # <<0, 1>>

\* C10: every hue lies in [0, 360), so the mesh colour comes from one of the
\* six sectors and is never the grey (v - v*s) of the fall-through, and items
\* of one call with different identifiers have different hues.
C10_HueInRangeAndDistinct ==
  emitted =>
    /\ \A k \in 1..Len(pose_results_) :
         /\ ~RatLess(hue[k], <<0, 1>>)
         /\ RatLess(hue[k], <<360, 1>>)
         /\ LET c == out_markers[2 * k - 1].color
            IN  ~(c.r = <<3, 10>> /\ c.g = <<3, 10>> /\ c.b = <<3, 10>>)
    /\ \A j, k \in 1..Len(pose_results_) :
         IdAt(j) # IdAt(k) => hue[j] # hue[k]
====
